---- MODULE Spec2Model ----
(***************************************************************************)
(* Model of busSweial.py: the bus-servo command interpreter.               *)
(*                                                                         *)
(* Text is a sequence of one-character strings, so that split, strip,      *)
(* int(), the d-format and encode('ascii') are computed character by       *)
(* character as Python computes them.  The one non-ASCII character of the  *)
(* alphabet is written "U+00E9" (and its upper case "U+00C9").             *)
(***************************************************************************)
EXTENDS Integers, Sequences, FiniteSets, TLC

----------------------------------------------------------------------------
(* Python string primitives                                                *)

DigitChars == <<"0", "1", "2", "3", "4", "5", "6", "7", "8", "9">>

IsDigit(c) == \E d \in 1..10 : DigitChars[d] = c

DigitVal(c) == (CHOOSE d \in 1..10 : DigitChars[d] = c) - 1

IsSpace(c) == c = " "

is_ascii(c) == c \notin {"U+00E9", "U+00C9"}

upper_ch(c) ==
  CASE c = "c" -> "C"
    [] c = "t" -> "T"
    [] c = "x" -> "X"
    [] c = "p" -> "P"
    [] c = "r" -> "R"
    [] c = "a" -> "A"
    [] c = "d" -> "D"
    [] c = "b" -> "B"
    [] c = "q" -> "Q"
    [] c = "u" -> "U"
    [] c = "i" -> "I"
    [] c = "e" -> "E"
    [] c = "U+00E9" -> "U+00C9"
    [] OTHER -> c

lower_ch(c) ==
  CASE c = "C" -> "c"
    [] c = "T" -> "t"
    [] c = "X" -> "x"
    [] c = "P" -> "p"
    [] c = "R" -> "r"
    [] c = "A" -> "a"
    [] c = "D" -> "d"
    [] c = "B" -> "b"
    [] c = "Q" -> "q"
    [] c = "U" -> "u"
    [] c = "I" -> "i"
    [] c = "E" -> "e"
    [] c = "U+00C9" -> "U+00E9"
    [] OTHER -> c

upper(s) == [i \in 1..Len(s) |-> upper_ch(s[i])]

lower(s) == [i \in 1..Len(s) |-> lower_ch(s[i])]

RECURSIVE lstrip(_)
lstrip(s) == IF s # <<>> /\ IsSpace(Head(s)) THEN lstrip(Tail(s)) ELSE s

RECURSIVE rstrip(_)
rstrip(s) ==
  IF s # <<>> /\ IsSpace(s[Len(s)]) THEN rstrip(SubSeq(s, 1, Len(s) - 1)) ELSE s

strip(s) == rstrip(lstrip(s))

startswith(s, p) == Len(s) >= Len(p) /\ SubSeq(s, 1, Len(p)) = p

endswith(s, p) == Len(s) >= Len(p) /\ SubSeq(s, Len(s) - Len(p) + 1, Len(s)) = p

\* str.split(sep) for a one-character separator: always at least one part.
RECURSIVE split(_, _)
split(s, sep) ==
  IF \A i \in 1..Len(s) : s[i] # sep
  THEN <<s>>
  ELSE LET i == CHOOSE k \in 1..Len(s) :
                    s[k] = sep /\ \A j \in 1..(k - 1) : s[j] # sep
       IN  <<SubSeq(s, 1, i - 1)>> \o split(SubSeq(s, i + 1, Len(s)), sep)

RECURSIVE digits_value(_)
digits_value(s) ==
  IF s = <<>> THEN 0
  ELSE 10 * digits_value(SubSeq(s, 1, Len(s) - 1)) + DigitVal(s[Len(s)])

\* int(text): surrounding whitespace is ignored, one optional sign, then at
\* least one digit and nothing else; anything else raises ValueError
\* (ok = FALSE).  The alphabet of the inputs has no underscore and no
\* digit outside 0-9, which int() would also accept.
int(text) ==
  LET t    == strip(text)
      sgn  == t # <<>> /\ Head(t) \in {"+", "-"}
      body == IF sgn THEN Tail(t) ELSE t
      good == body # <<>> /\ \A i \in 1..Len(body) : IsDigit(body[i])
  IN  [ok  |-> good,
       val |-> IF ~good THEN 0
               ELSE IF sgn /\ Head(t) = "-" THEN 0 - digits_value(body)
               ELSE digits_value(body)]

RECURSIVE digits(_)
digits(n) ==
  IF n < 10 THEN <<DigitChars[n + 1]>>
  ELSE digits(n \div 10) \o <<DigitChars[(n % 10) + 1]>>

RECURSIVE zero_pad(_, _)
zero_pad(s, w) == IF Len(s) >= w THEN s ELSE zero_pad(<<"0">> \o s, w)

\* format(n, "0<w>d"): the sign counts in the minimum width w; a value with
\* more digits than w is rendered in full.
format_d(n, w) ==
  IF n < 0 THEN <<"-">> \o zero_pad(digits(0 - n), w - 1)
  ELSE zero_pad(digits(n), w)

\* text.encode('ascii'): the same characters as bytes, or UnicodeEncodeError.
encode_ok(s) == \A i \in 1..Len(s) : is_ascii(s[i])

Min(a, b) == IF a < b THEN a ELSE b

Max(a, b) == IF a > b THEN a ELSE b

----------------------------------------------------------------------------
(* Program constants and the pure parts of the controller                  *)

PULSE_MIN_US == 500

PULSE_MAX_US == 2500

InitialDefaultTime == 1000

\* clamp_pulse without its upper limit.
clamp_pulse_low_only(pulse_us) == Max(PULSE_MIN_US, pulse_us)

\* send_servo_move, "limit the parameter range"
clamp_pulse(pulse_us) == Max(PULSE_MIN_US, Min(PULSE_MAX_US, pulse_us))

clamp_time(time_ms) == Max(1, time_ms)

clamp_id(servo_id) == Min(999, servo_id)

\* send_servo_move: the frame f"#{servo_id:03d}P{pulse_us:04d}T{time_ms:04d}!"
frame_of(servo_id, pulse_us, time_ms) ==
  <<"#">> \o format_d(clamp_id(servo_id), 3)
    \o <<"P">> \o format_d(clamp_pulse(pulse_us), 4)
    \o <<"T">> \o format_d(clamp_time(time_ms), 4)
    \o <<"!">>

\* parse_segment with the id test off by one (servo_id > 1000).
parse_segment_id_1000(segment, dflt) ==
  LET parts == split(segment, ",")
      none  == [ok |-> FALSE, id |-> 0, pulse |-> 0, time |-> 0]
  IN  IF Len(parts) < 2 THEN none
      ELSE LET i == int(parts[1])
               p == int(parts[2])
               t == IF Len(parts) > 2 THEN int(parts[3])
                    ELSE [ok |-> TRUE, val |-> dflt]
           IN  IF ~i.ok \/ ~p.ok \/ ~t.ok THEN none
               ELSE IF i.val < 0 \/ i.val > 1000 \/ p.val <= 0 \/ t.val <= 0
                    THEN none
                    ELSE [ok |-> TRUE, id |-> i.val, pulse |-> p.val,
                          time |-> t.val]

\* parse_segment: ok = FALSE is the None result.
parse_segment(segment, dflt) ==
  LET parts == split(segment, ",")
      none  == [ok |-> FALSE, id |-> 0, pulse |-> 0, time |-> 0]
  IN  IF Len(parts) < 2 THEN none
      ELSE LET i == int(parts[1])
               p == int(parts[2])
               t == IF Len(parts) > 2 THEN int(parts[3])
                    ELSE [ok |-> TRUE, val |-> dflt]
           IN  IF ~i.ok \/ ~p.ok \/ ~t.ok THEN none
               ELSE IF i.val < 0 \/ i.val > 999 \/ p.val <= 0 \/ t.val <= 0
                    THEN none
                    ELSE [ok |-> TRUE, id |-> i.val, pulse |-> p.val,
                          time |-> t.val]

\* send_passthrough: the wrapper test of its first statement.
passthrough_ok(command) ==
  startswith(upper(command), <<"C", "#">>) /\ endswith(command, <<"!">>)

\* send_passthrough: payload = command[1:]
payload_of(command) == SubSeq(command, 2, Len(command))

\* ct_default accepting zero (new_time >= 0).
ct_default_accepts_zero(text, dflt) ==
  LET v == int(SubSeq(text, 3, Len(text)))
  IN  IF v.ok /\ v.val >= 0 THEN v.val ELSE dflt

\* process_command, the ct branch: the value of default_time_ms after it.
ct_default(text, dflt) ==
  LET v == int(SubSeq(text, 3, Len(text)))
  IN  IF v.ok /\ v.val > 0 THEN v.val ELSE dflt

\* What is printed or returned: a kind, a text and a number.
Msg(k, s, n) == [k |-> k, s |-> s, n |-> n]

NoMsg == Msg("none", <<>>, 0)

----------------------------------------------------------------------------
(* Inputs                                                                  *)

MaxSegs == 2    \* segments typed on one line
MaxAvail == 2   \* capacity of the receive buffer, in bursts
MaxResp == 2    \* the length of the response is counted up to this
MaxBursts == 1  \* bursts a device that falls silent still sends

Unbounded == 0 - 1  \* devLeft of a device that never stops sending

SegTexts ==
  { <<"0", ",", "1", "5", "0", "0">>,
    <<"1", ",", "2", "0", "0", "0">>,
    <<"5", ",", "9", "9", "9", "9", ",", "1">>,
    <<"2", ",", "1", "8", "0", "0">>,
    <<"0", ",", "1", "5", "0", "0", ",", "1", "0", "0", "0", "0">>,
    <<"0", ",", "1", "6", "4", "0", ",", "0">>,
    <<"1", "0", "0", "0", ",", "1", "5", "0", "0">>,
    <<"-", "1", ",", "1", "5", "0", "0">>,
    <<"0", ",", "b", "a", "d">>,
    <<"b", "a", "d", ",", "1", "5", "0", "0">>,
    <<"0">>,
    <<>>,
    <<" ", "3", ",", "4", "0", "0", " ">>,
    <<"0", ",", "0">>,
    <<"0", ",", "1", "5", "0", "0", ",">>,
    <<"0", ",", "1", "5", "0", "0", ",", "2", "0", ",", "x">> }

RECURSIVE join(_, _)
join(ss, sep) ==
  IF Len(ss) = 1 THEN ss[1] ELSE ss[1] \o <<sep>> \o join(Tail(ss), sep)

MoveLines ==
  { join(ss, ";") : ss \in UNION { [1..n -> SegTexts] : n \in 1..MaxSegs } }

\* ct lines as typed, each with the integer it denotes (0 when it denotes
\* no positive integer).
CtTable ==
  { <<<<"c", "t", "5", "0", "0">>, 500>>,
    <<<<"c", "t", "0">>, 0>>,
    <<<<"c", "t", "-", "5">>, 0>>,
    <<<<"c", "t", "1", "0", "0", "0", "0">>, 10000>>,
    <<<<" ", "c", "t", " ", "+", "5", "0", "0", " ">>, 500>>,
    <<<<"c", "t", "x">>, 0>>,
    <<<<"c", "t">>, 0>>,
    <<<<"c", "t", "5", "0", "0", ";", "0", ",", "1", "5", "0", "0">>, 0>> }

CtLines == { e[1] : e \in CtTable }

PtLines ==
  { <<"c", "#", "0", "0", "0", "p", "r", "a", "d", "1", "5", "0", "0", "!">>,
    <<"C", "#", "0", "0", "0", "P", "R", "A", "D", "1", "5", "0", "0", "!">>,
    <<"C", "#", "0", "0", "0">>,
    <<"C", "#", "!">>,
    <<"c", "#">>,
    <<"C", "#", "U+00E9", "!">>,
    <<" ", "C", "#", "0", "0", "1", "P", "R", "A", "D", "!", " ">> }

QuitLines ==
  { <<"q">>,
    <<"q", "u", "i", "t">>,
    <<"E", "X", "I", "T">> }

TypedLines == MoveLines \cup CtLines \cup PtLines

ApiLines ==
  { <<" ">>,
    <<"0", ",", "1", "5", "0", "0", ";", ";", "1", ",", "2", "0", "0", "0">>,
    <<"5", ",", "9", "9", "9", "9", ",", "1">>,
    <<"c", "t", "5", "0", "0">>,
    <<"2", ",", "1", "8", "0", "0">>,
    <<"0", ",", "b", "a", "d", ";", "1", ",", "2", "0", "0", "0">>,
    <<"c", "#", "0", "0", "0", "p", "r", "a", "d", "1", "5", "0", "0", "!">> }

ApiCommands ==
  PtLines \cup
  { <<"X", "#", "0", "0", "0", "!">>,
    <<"#", "0", "0", "0", "!">>,
    <<"C">>,
    <<>>,
    <<"x", "#", "!">> }

ApiIds == {0 - 5, 0, 5, 999, 1000, 12345}

ApiPulses == {0 - 1, 0, 499, 500, 1640, 2500, 2501, 9999}

ApiTimes == {0 - 3, 0, 1, 1000, 9999, 10000}

----------------------------------------------------------------------------
(* State                                                                   *)

VARIABLES
  driver,           \* who calls the controller: main() or a direct caller
  pc,               \* position of the single thread
  call,             \* the controller method the driver called
  line,             \* process_command: its argument
  command,          \* send_passthrough: its argument
  segments,         \* process_command: segments the for loop has not reached
  args,             \* send_servo_move: the arguments of its latest call
  default_time_ms,  \* the global default time
  is_open,          \* serial.is_open
  wire,             \* completed serial.write calls since the call began
  out,              \* lines printed since the call began
  ret,              \* value returned to a direct caller
  in_waiting,       \* serial.in_waiting: bursts buffered for reading
  response,         \* send_passthrough: length of response, up to MaxResp
  devLeft,          \* bursts the device will still send, or Unbounded
  steps,            \* transport steps of send_passthrough since the call began
  exc,              \* the latest exception raised in the call
  raisedAt,         \* the position at which it was raised
  lineDefault,      \* default_time_ms when the call began
  lastCt            \* value of the latest typed ct line that denotes an integer > 0

vars == <<driver, pc, call, line, command, segments, args, default_time_ms,
          is_open, wire, out, ret, in_waiting, response, devLeft, steps, exc,
          raisedAt, lineDefault, lastCt>>

InitCommon ==
  /\ pc = "idle"
  /\ call = "none"
  /\ line = <<>>
  /\ command = <<>>
  /\ segments = <<>>
  /\ args = <<0, 0, 0>>
  /\ default_time_ms = InitialDefaultTime
  /\ is_open = TRUE
  /\ wire = <<>>
  /\ out = <<>>
  /\ ret = NoMsg
  /\ in_waiting = 0
  /\ response = 0
  /\ devLeft \in (0..MaxBursts) \cup {Unbounded}
  /\ steps = <<>>
  /\ exc = "none"
  /\ raisedAt = "none"
  /\ lineDefault = InitialDefaultTime
  /\ lastCt = InitialDefaultTime

Init == driver = "main" /\ InitCommon

ApiInit == driver = "api" /\ InitCommon

\* The ct line l as the table reads it.
CtTyped(l, old) ==
  IF \E e \in CtTable : e[1] = l /\ e[2] > 0
  THEN (CHOOSE e \in CtTable : e[1] = l /\ e[2] > 0)[2]
  ELSE old

\* A call of process_command(l) begins.
BeginProcess(l) ==
  /\ pc' = "process"
  /\ call' = "process_command"
  /\ line' = l
  /\ command' = <<>>
  /\ segments' = <<>>
  /\ wire' = <<>>
  /\ out' = <<>>
  /\ ret' = NoMsg
  /\ steps' = <<>>
  /\ exc' = "none"
  /\ raisedAt' = "none"
  /\ lineDefault' = default_time_ms
  /\ args' = <<0, 0, 0>>
  /\ response' = 0
  /\ UNCHANGED <<driver, default_time_ms, is_open, in_waiting, devLeft>>

\* An exception e leaves the controller: main() does not catch it, its
\* finally clause closes the port and the process ends; a direct caller
\* gets it.
Raise(e) ==
  /\ exc' = e
  /\ raisedAt' = pc
  /\ IF driver = "main"
     THEN pc' = "closed" /\ is_open' = FALSE
     ELSE pc' = "returned" /\ is_open' = is_open
  /\ UNCHANGED <<driver, call, lastCt, lineDefault, in_waiting, devLeft>>

\* The called method returns normally.
Return ==
  /\ pc' = "returned"
  /\ UNCHANGED <<driver, call, is_open, exc, raisedAt, lineDefault, lastCt,
                 in_waiting, devLeft>>

----------------------------------------------------------------------------
(* main(): the input loop                                                  *)

QuitWords == {<<"q", "u", "i", "t">>, <<"e", "x", "i", "t">>, <<"q">>}

\* input("> ").strip(), not a quit word: process_command(line) is called.
ReadFrom(typed) ==
  /\ driver = "main" /\ pc = "idle"
  /\ \E l \in typed :
       /\ lower(strip(l)) \notin QuitWords
       /\ BeginProcess(strip(l))
       /\ lastCt' = CtTyped(l, lastCt)

ReadLine == ReadFrom(TypedLines)

\* The same, the typist typing passthrough lines only.
ReadPassthroughLine == ReadFrom(PtLines)

ReadQuit ==
  /\ driver = "main" /\ pc = "idle"
  /\ \E l \in QuitLines :
       /\ lower(strip(l)) \in QuitWords
       /\ pc' = "closed"
       /\ is_open' = FALSE
       /\ out' = <<Msg("quit", <<>>, 0)>>
       /\ wire' = <<>>
       /\ UNCHANGED <<driver, call, line, command, segments, args,
                      default_time_ms, ret, in_waiting, response, devLeft,
                      steps, exc, raisedAt, lineDefault, lastCt>>

\* The call is over: main's "while True" comes round to input("> ") again, a
\* direct caller goes on to its next call.  What was recorded about the
\* finished call is dropped.
Resume ==
  /\ pc = "returned"
  /\ pc' = "idle"
  /\ call' = "none"
  /\ line' = <<>>
  /\ command' = <<>>
  /\ segments' = <<>>
  /\ args' = <<0, 0, 0>>
  /\ wire' = <<>>
  /\ out' = <<>>
  /\ ret' = NoMsg
  /\ response' = 0
  /\ steps' = <<>>
  /\ exc' = "none"
  /\ raisedAt' = "none"
  /\ lineDefault' = default_time_ms
  /\ UNCHANGED <<driver, default_time_ms, is_open, in_waiting, devLeft, lastCt>>

\* KeyboardInterrupt handled by going round the loop ("continue").
KeyboardInterrupt_continue ==
  /\ driver = "main" /\ pc # "closed"
  /\ exc' = "KeyboardInterrupt"
  /\ raisedAt' = pc
  /\ out' = Append(out, Msg("interrupt", <<>>, 0))
  /\ pc' = "returned"
  /\ UNCHANGED <<driver, call, line, command, segments, args, default_time_ms,
                 is_open, wire, ret, in_waiting, response, devLeft, steps,
                 lineDefault, lastCt>>

\* Ctrl-C anywhere inside main's try block: "except KeyboardInterrupt"
\* prints, breaks out of the loop, and the finally clause closes the port.
KeyboardInterrupt ==
  /\ driver = "main" /\ pc # "closed"
  /\ exc' = "KeyboardInterrupt"
  /\ raisedAt' = pc
  /\ out' = Append(out, Msg("interrupt", <<>>, 0))
  /\ pc' = "closed"
  /\ is_open' = FALSE
  /\ UNCHANGED <<driver, call, line, command, segments, args, default_time_ms,
                 wire, ret, in_waiting, response, devLeft, steps, lineDefault,
                 lastCt>>

----------------------------------------------------------------------------
(* process_command                                                         *)

IsPassthroughLine(text) == startswith(upper(text), <<"C", "#">>)

IsCtLine(text) == ~IsPassthroughLine(text) /\ startswith(text, <<"c", "t">>)

\* "if not line: return"
ProcessEmpty ==
  /\ pc = "process"
  /\ strip(line) = <<>>
  /\ Return
  /\ UNCHANGED <<line, command, segments, args, default_time_ms, wire, out,
                 ret, response, steps>>

\* The C# branch calls send_passthrough(line).
ProcessPassthrough ==
  /\ pc = "process"
  /\ strip(line) # <<>>
  /\ IsPassthroughLine(strip(line))
  /\ pc' = "pt_enter"
  /\ command' = strip(line)
  /\ UNCHANGED <<driver, call, line, segments, args, default_time_ms, is_open,
                 wire, out, ret, in_waiting, response, devLeft, steps, exc,
                 raisedAt, lineDefault, lastCt>>

\* The ct branch, whole.
ProcessCt ==
  /\ pc = "process"
  /\ strip(line) # <<>>
  /\ IsCtLine(strip(line))
  /\ LET new == ct_default(strip(line), default_time_ms)
         v   == int(SubSeq(strip(line), 3, Len(strip(line))))
     IN  /\ default_time_ms' = new
         /\ out' = Append(out, IF v.ok /\ v.val > 0
                               THEN Msg("ct_set", <<>>, new)
                               ELSE Msg("ct_invalid", <<>>, 0))
  /\ Return
  /\ UNCHANGED <<line, command, segments, args, wire, ret, response, steps>>

\* "segments = line.split(';')"
ProcessMoves ==
  /\ pc = "process"
  /\ strip(line) # <<>>
  /\ ~IsPassthroughLine(strip(line))
  /\ ~IsCtLine(strip(line))
  /\ pc' = "move"
  /\ segments' = split(strip(line), ";")
  /\ UNCHANGED <<driver, call, line, command, args, default_time_ms, is_open,
                 wire, out, ret, in_waiting, response, devLeft, steps, exc,
                 raisedAt, lineDefault, lastCt>>

\* One iteration of the for loop on an empty segment: "continue".
MoveSkipEmpty ==
  /\ pc = "move"
  /\ segments # <<>>
  /\ strip(Head(segments)) = <<>>
  /\ segments' = Tail(segments)
  /\ UNCHANGED <<driver, pc, call, line, command, args, default_time_ms,
                 is_open, wire, out, ret, in_waiting, response, devLeft, steps,
                 exc, raisedAt, lineDefault, lastCt>>

\* MoveSegment leaving the loop at an invalid segment ("break").
MoveSegment_break ==
  /\ pc = "move"
  /\ segments # <<>>
  /\ strip(Head(segments)) # <<>>
  /\ LET seg == strip(Head(segments))
         r   == parse_segment(seg, default_time_ms)
     IN  IF r.ok
         THEN /\ args' = <<r.id, r.pulse, r.time>>
              /\ wire' = Append(wire, frame_of(r.id, r.pulse, r.time))
              /\ out' = Append(out, Msg("sent", frame_of(r.id, r.pulse, r.time), 0))
              /\ segments' = Tail(segments)
         ELSE /\ out' = Append(out, Msg("skip", seg, 0))
              /\ segments' = <<>>
              /\ UNCHANGED <<args, wire>>
  /\ UNCHANGED <<driver, pc, call, line, command, default_time_ms, is_open,
                 ret, in_waiting, response, devLeft, steps, exc, raisedAt,
                 lineDefault, lastCt>>

\* One iteration of the for loop: parse_segment, then send_servo_move and
\* "Sent ->", or "Skip invalid segment".
MoveSegment ==
  /\ pc = "move"
  /\ segments # <<>>
  /\ strip(Head(segments)) # <<>>
  /\ LET seg == strip(Head(segments))
         r   == parse_segment(seg, default_time_ms)
     IN  IF r.ok
         THEN /\ args' = <<r.id, r.pulse, r.time>>
              /\ wire' = Append(wire, frame_of(r.id, r.pulse, r.time))
              /\ out' = Append(out, Msg("sent", frame_of(r.id, r.pulse, r.time), 0))
         ELSE /\ out' = Append(out, Msg("skip", seg, 0))
              /\ UNCHANGED <<args, wire>>
  /\ segments' = Tail(segments)
  /\ UNCHANGED <<driver, pc, call, line, command, default_time_ms, is_open,
                 ret, in_waiting, response, devLeft, steps, exc, raisedAt,
                 lineDefault, lastCt>>

\* MoveWriteFails printing "Sent ->" all the same.
MoveWriteFails_reports ==
  /\ pc = "move"
  /\ segments # <<>>
  /\ strip(Head(segments)) # <<>>
  /\ LET r == parse_segment(strip(Head(segments)), default_time_ms)
     IN  /\ r.ok
         /\ args' = <<r.id, r.pulse, r.time>>
         /\ out' = Append(out, Msg("sent", frame_of(r.id, r.pulse, r.time), 0))
  /\ Raise("SerialException")
  /\ UNCHANGED <<line, command, segments, default_time_ms, wire, ret,
                 response, steps>>

\* The same iteration when serial.write raises in send_servo_move.
MoveWriteFails ==
  /\ pc = "move"
  /\ segments # <<>>
  /\ strip(Head(segments)) # <<>>
  /\ LET r == parse_segment(strip(Head(segments)), default_time_ms)
     IN  /\ r.ok
         /\ args' = <<r.id, r.pulse, r.time>>
  /\ Raise("SerialException")
  /\ UNCHANGED <<line, command, segments, default_time_ms, wire, out, ret,
                 response, steps>>

\* The for loop is exhausted.
MoveDone ==
  /\ pc = "move"
  /\ segments = <<>>
  /\ Return
  /\ UNCHANGED <<line, command, segments, args, default_time_ms, wire, out,
                 ret, response, steps>>

----------------------------------------------------------------------------
(* send_passthrough                                                        *)

\* The method returns result: process_command prints it, a direct caller
\* receives it.
PassthroughResult(result) ==
  /\ IF call = "process_command"
     THEN out' = Append(out, result) /\ ret' = ret
     ELSE ret' = result /\ out' = out
  /\ Return

PassthroughInvalid ==
  /\ pc = "pt_enter"
  /\ ~passthrough_ok(command)
  /\ PassthroughResult(Msg("pt_invalid", <<>>, 0))
  /\ UNCHANGED <<line, command, segments, args, default_time_ms, wire,
                 response, steps>>

\* payload.encode('ascii') raises before anything is written.
PassthroughEncodeError ==
  /\ pc = "pt_enter"
  /\ passthrough_ok(command)
  /\ ~encode_ok(payload_of(command))
  /\ Raise("UnicodeEncodeError")
  /\ UNCHANGED <<line, command, segments, args, default_time_ms, wire, out,
                 ret, response, steps>>

\* PassthroughWrite going on to the drain without the settle delay.
PassthroughWrite_no_sleep ==
  /\ pc = "pt_enter"
  /\ passthrough_ok(command)
  /\ encode_ok(payload_of(command))
  /\ wire' = Append(wire, payload_of(command))
  /\ steps' = Append(steps, "write")
  /\ pc' = "pt_drain"
  /\ UNCHANGED <<driver, call, line, command, segments, args, default_time_ms,
                 is_open, out, ret, in_waiting, response, devLeft, exc,
                 raisedAt, lineDefault, lastCt>>

\* serial.write(payload): one call, complete when it returns.
PassthroughWrite ==
  /\ pc = "pt_enter"
  /\ passthrough_ok(command)
  /\ encode_ok(payload_of(command))
  /\ wire' = Append(wire, payload_of(command))
  /\ steps' = Append(steps, "write")
  /\ pc' = "pt_sleep"
  /\ UNCHANGED <<driver, call, line, command, segments, args, default_time_ms,
                 is_open, out, ret, in_waiting, response, devLeft, exc,
                 raisedAt, lineDefault, lastCt>>

PassthroughWriteFails ==
  /\ pc = "pt_enter"
  /\ passthrough_ok(command)
  /\ encode_ok(payload_of(command))
  /\ Raise("SerialException")
  /\ UNCHANGED <<line, command, segments, args, default_time_ms, wire, out,
                 ret, response, steps>>

\* time.sleep(0.05) returns; response = "".
PassthroughSleep ==
  /\ pc = "pt_sleep"
  /\ steps' = Append(steps, "sleep")
  /\ response' = 0
  /\ pc' = "pt_drain"
  /\ UNCHANGED <<driver, call, line, command, segments, args, default_time_ms,
                 is_open, wire, out, ret, in_waiting, devLeft, exc, raisedAt,
                 lineDefault, lastCt>>

\* One iteration of "while in_waiting > 0": read(in_waiting) takes what is
\* buffered.
PassthroughDrainRead ==
  /\ pc = "pt_drain"
  /\ in_waiting > 0
  /\ response' = Min(MaxResp, response + in_waiting)
  /\ in_waiting' = 0
  /\ steps' = IF steps[Len(steps)] = "read" THEN steps ELSE Append(steps, "read")
  /\ UNCHANGED <<driver, pc, call, line, command, segments, args,
                 default_time_ms, is_open, wire, out, ret, devLeft, exc,
                 raisedAt, lineDefault, lastCt>>

\* PassthroughDrainExit polling on until some reply has arrived.
PassthroughDrainExit_waits ==
  /\ pc = "pt_drain"
  /\ in_waiting = 0
  /\ response > 0
  /\ PassthroughResult(Msg("pt_sent", payload_of(command), response))
  /\ UNCHANGED <<line, command, segments, args, default_time_ms, wire,
                 response, steps>>

\* The loop test finds the buffer empty; the method returns.
PassthroughDrainExit ==
  /\ pc = "pt_drain"
  /\ in_waiting = 0
  /\ PassthroughResult(Msg("pt_sent", payload_of(command), response))
  /\ UNCHANGED <<line, command, segments, args, default_time_ms, wire,
                 response, steps>>

\* serial.in_waiting or serial.read raises.
PassthroughReadFails ==
  /\ pc = "pt_drain"
  /\ Raise("SerialException")
  /\ UNCHANGED <<line, command, segments, args, default_time_ms, wire, out,
                 ret, response, steps>>

----------------------------------------------------------------------------
(* The device on the bus                                                   *)

\* The device sends a burst; a full receive buffer drops it.
DeviceSend ==
  /\ pc # "closed"
  /\ devLeft # 0
  /\ in_waiting' = Min(MaxAvail, in_waiting + 1)
  /\ devLeft' = IF devLeft = Unbounded THEN Unbounded ELSE devLeft - 1
  /\ UNCHANGED <<driver, pc, call, line, command, segments, args,
                 default_time_ms, is_open, wire, out, ret, response, steps,
                 exc, raisedAt, lineDefault, lastCt>>

----------------------------------------------------------------------------
(* Direct calls of the controller's methods                                *)

ApiProcessCommand ==
  /\ driver = "api" /\ pc = "idle"
  /\ \E l \in ApiLines :
       /\ BeginProcess(l)
       /\ lastCt' = CtTyped(l, lastCt)

BeginDirect(method) ==
  /\ call' = method
  /\ line' = <<>>
  /\ segments' = <<>>
  /\ out' = <<>>
  /\ steps' = <<>>
  /\ lineDefault' = default_time_ms
  /\ response' = 0
  /\ UNCHANGED <<driver, default_time_ms, is_open, in_waiting, devLeft, lastCt>>

ApiSendServoMove ==
  /\ driver = "api" /\ pc = "idle"
  /\ \E servo_id \in ApiIds, pulse_us \in ApiPulses, time_ms \in ApiTimes :
       /\ args' = <<servo_id, pulse_us, time_ms>>
       /\ wire' = <<frame_of(servo_id, pulse_us, time_ms)>>
       /\ ret' = Msg("frame", frame_of(servo_id, pulse_us, time_ms), 0)
  /\ BeginDirect("send_servo_move")
  /\ exc' = "none"
  /\ raisedAt' = "none"
  /\ pc' = "returned"
  /\ UNCHANGED command

ApiSendServoMoveFails ==
  /\ driver = "api" /\ pc = "idle"
  /\ \E servo_id \in ApiIds, pulse_us \in ApiPulses, time_ms \in ApiTimes :
       args' = <<servo_id, pulse_us, time_ms>>
  /\ wire' = <<>>
  /\ ret' = NoMsg
  /\ BeginDirect("send_servo_move")
  /\ exc' = "SerialException"
  /\ raisedAt' = "send_servo_move"
  /\ pc' = "returned"
  /\ UNCHANGED command

ApiSendPassthrough ==
  /\ driver = "api" /\ pc = "idle"
  /\ \E c \in ApiCommands : command' = c
  /\ pc' = "pt_enter"
  /\ wire' = <<>>
  /\ ret' = NoMsg
  /\ BeginDirect("send_passthrough")
  /\ exc' = "none"
  /\ raisedAt' = "none"
  /\ UNCHANGED args

----------------------------------------------------------------------------
(* Specifications                                                          *)

\* The steps the thread takes by itself, once a call has begun.
ProgramStep ==
  \/ ProcessEmpty
  \/ ProcessPassthrough
  \/ ProcessCt
  \/ ProcessMoves
  \/ MoveSkipEmpty
  \/ MoveSegment
  \/ MoveDone
  \/ PassthroughInvalid
  \/ PassthroughEncodeError
  \/ PassthroughWrite
  \/ PassthroughSleep
  \/ PassthroughDrainRead
  \/ PassthroughDrainExit

\* What the transport and the device may do to it.
Environment ==
  \/ MoveWriteFails
  \/ PassthroughWriteFails
  \/ PassthroughReadFails
  \/ DeviceSend

Next ==
  \/ ReadLine
  \/ ReadQuit
  \/ Resume
  \/ KeyboardInterrupt
  \/ ProgramStep
  \/ Environment

ApiNext ==
  \/ ApiProcessCommand
  \/ ApiSendServoMove
  \/ ApiSendServoMoveFails
  \/ ApiSendPassthrough
  \/ Resume
  \/ ProgramStep
  \/ Environment

Spec == Init /\ [][Next]_vars

ApiSpec == ApiInit /\ [][ApiNext]_vars

\* A session in which only passthrough lines are typed.
PtNext ==
  \/ ReadPassthroughLine
  \/ Resume
  \/ KeyboardInterrupt
  \/ ProcessPassthrough
  \/ PassthroughInvalid
  \/ PassthroughEncodeError
  \/ PassthroughWrite
  \/ PassthroughSleep
  \/ PassthroughDrainRead
  \/ PassthroughDrainExit
  \/ PassthroughWriteFails
  \/ PassthroughReadFails
  \/ DeviceSend

\* The thread is never descheduled for ever: a step it can take, it takes.
\* No fairness constrains the typist, the device or the transport.
PtSpec == Init /\ [][PtNext]_vars /\ WF_vars(ProgramStep)

TypeOK ==
  /\ driver \in {"main", "api"}
  /\ pc \in {"idle", "returned", "process", "move", "pt_enter", "pt_sleep", "pt_drain", "closed"}
  /\ default_time_ms \in Nat
  /\ in_waiting \in 0..MaxAvail
  /\ response \in 0..MaxResp
  /\ devLeft \in (0..MaxBursts) \cup {Unbounded}
  /\ is_open \in BOOLEAN

----------------------------------------------------------------------------
(* Reading frames and calls                                                *)

FirstIndex(f, c) == CHOOSE k \in 1..Len(f) : f[k] = c /\ \A j \in 1..(k - 1) : f[j] # c

\* The fields of a move frame at their fixed positions.
FixedId(f) == int(SubSeq(f, 2, 4))

FixedPulse(f) == int(SubSeq(f, 6, 9))

FixedTime(f) == int(SubSeq(f, 11, 14))

\* The fields of a move frame between its markers # P T !
FieldId(f) == int(SubSeq(f, 2, FirstIndex(f, "P") - 1))

FieldPulse(f) == int(SubSeq(f, FirstIndex(f, "P") + 1, FirstIndex(f, "T") - 1))

FieldTime(f) == int(SubSeq(f, FirstIndex(f, "T") + 1, Len(f) - 1))

IsNonEmptySegment(seg) == strip(seg) # <<>>

\* A call of process_command on a move line, in or after its for loop.
InMoveCall ==
  /\ call = "process_command"
  /\ pc \in {"move", "returned"}
  /\ exc = "none"
  /\ strip(line) # <<>>
  /\ ~IsPassthroughLine(strip(line))
  /\ ~IsCtLine(strip(line))

\* The trimmed non-empty segments the for loop has already been through.
SegmentsDone ==
  LET all  == split(strip(line), ";")
      done == SelectSeq(SubSeq(all, 1, Len(all) - Len(segments)), IsNonEmptySegment)
  IN  [j \in 1..Len(done) |-> strip(done[j])]

SentCount == Cardinality({j \in 1..Len(out) : out[j].k = "sent"})

----------------------------------------------------------------------------
(* C1 *)

\* C1 (as claimed): every move frame process_command has written is exactly
\* 15 characters long, and the three fields at their fixed positions of the
\* latest one re-parse to the clamped arguments of its send_servo_move call.
C1_FrameIs15 ==
  (call = "process_command" /\ ~IsPassthroughLine(strip(line)))
    => /\ \A j \in 1..Len(wire) : Len(wire[j]) = 15
       /\ wire # <<>> =>
            LET f == wire[Len(wire)]
            IN  /\ FixedId(f) = [ok |-> TRUE, val |-> Min(999, args[1])]
                /\ FixedPulse(f) = [ok |-> TRUE, val |-> Min(2500, Max(500, args[2]))]
                /\ FixedTime(f) = [ok |-> TRUE, val |-> Max(1, args[3])]

----------------------------------------------------------------------------
(* C2 *)

\* C2: a direct call send_servo_move(id, pulse, time) that returns has
\* written the frame it returns, the frame is pure ASCII, and its fields
\* read between the markers are min(999, id), min(2500, max(500, pulse))
\* and max(1, time); process_command("5,9999,1") writes #005P2500T0001!
C2_EncodeClamps ==
  /\ (call = "send_servo_move" /\ pc = "returned" /\ exc = "none")
       => /\ ret.k = "frame"
          /\ wire = <<ret.s>>
          /\ encode_ok(ret.s)
          /\ Head(ret.s) = "#" /\ ret.s[Len(ret.s)] = "!"
          /\ FieldId(ret.s) =
               [ok |-> TRUE, val |-> IF args[1] > 999 THEN 999 ELSE args[1]]
          /\ FieldPulse(ret.s) =
               [ok |-> TRUE, val |-> IF args[2] > 2500 THEN 2500
                                     ELSE IF args[2] < 500 THEN 500 ELSE args[2]]
          /\ FieldTime(ret.s) =
               [ok |-> TRUE, val |-> IF args[3] < 1 THEN 1 ELSE args[3]]
  /\ (/\ call = "process_command" /\ pc = "returned" /\ exc = "none"
      /\ line = <<"5", ",", "9", "9", "9", "9", ",", "1">>)
       => wire = <<<<"#", "0", "0", "5", "P", "2", "5", "0", "0", "T", "0", "0", "0", "1", "!">>>>

C2_Witness ==
  /\ call = "send_servo_move" /\ pc = "returned" /\ exc = "none"
  /\ args[1] > 999 /\ args[2] > 2500 /\ args[3] < 1
  /\ wire = <<<<"#", "9", "9", "9", "P", "2", "5", "0", "0", "T", "0", "0", "0", "1", "!">>>>

----------------------------------------------------------------------------
(* C3 *)

\* The segments C3 says are rejected.
C3_Rejected(seg) ==
  LET parts == split(seg, ",")
  IN  \/ Len(parts) < 2
      \/ ~int(parts[1]).ok
      \/ ~int(parts[2]).ok
      \/ (Len(parts) > 2 /\ ~int(parts[3]).ok)
      \/ int(parts[1]).val < 0
      \/ int(parts[1]).val > 999
      \/ int(parts[2]).val <= 0
      \/ (IF Len(parts) > 2 THEN int(parts[3]).val ELSE default_time_ms) <= 0

\* C3: in process_command, a segment with fewer than 2 fields, a
\* non-integer token, id < 0, id > 999, pulse <= 0 or duration <= 0 gets the
\* skipped-segment diagnostic and no write; every frame written has its id
\* in 0..999.
C3_RejectedNotSent ==
  InMoveCall =>
    /\ Len(out) = Len(SegmentsDone)
    /\ \A j \in 1..Len(SegmentsDone) :
         C3_Rejected(SegmentsDone[j]) => out[j] = Msg("skip", SegmentsDone[j], 0)
    /\ Len(wire) = SentCount
    /\ \A j \in 1..Len(wire) :
         FieldId(wire[j]).ok /\ FieldId(wire[j]).val \in 0..999

C3_Witness ==
  /\ InMoveCall /\ pc = "returned"
  /\ line = <<"1", "0", "0", "0", ",", "1", "5", "0", "0", ";", "1", ",", "2", "0", "0", "0">>
  /\ out[1].k = "skip" /\ out[2].k = "sent" /\ Len(wire) = 1

----------------------------------------------------------------------------
(* C4 *)

\* C4: default_time_ms is always > 0; between calls it is the value of the
\* latest typed ct line that denotes an integer > 0 (1000 if none); a ct line
\* that denotes none leaves it unchanged and prints the diagnostic; move and
\* passthrough lines leave it unchanged; a segment without a duration is
\* sent with it.
C4_DefaultIsLastCt ==
  /\ default_time_ms > 0
  /\ (pc \in {"idle", "returned"} /\ exc = "none") => default_time_ms = lastCt
  /\ (call = "process_command" /\ pc = "returned" /\ exc = "none")
       => IF IsCtLine(strip(line))
          THEN \/ out = <<Msg("ct_set", <<>>, lastCt)>> /\ default_time_ms = lastCt
               \/ out = <<Msg("ct_invalid", <<>>, 0)>> /\ default_time_ms = lineDefault
          ELSE default_time_ms = lineDefault
  /\ (/\ InMoveCall
      /\ SegmentsDone # <<>>
      /\ Len(split(SegmentsDone[Len(SegmentsDone)], ",")) = 2
      /\ out[Len(out)].k = "sent")
       => /\ args[3] = default_time_ms
          /\ FieldTime(wire[Len(wire)]) = [ok |-> TRUE, val |-> default_time_ms]

C4_Witness ==
  /\ lastCt = 500 /\ default_time_ms = 500
  /\ pc = "returned" /\ exc = "none"
  /\ line = <<"2", ",", "1", "8", "0", "0">>
  /\ wire = <<<<"#", "0", "0", "2", "P", "1", "8", "0", "0", "T", "0", "5", "0", "0", "!">>>>

----------------------------------------------------------------------------
(* C5 *)

\* The outcome C5 expects of a segment.
C5_Outcome(seg) ==
  LET r == parse_segment(seg, default_time_ms)
  IN  IF r.ok THEN Msg("sent", frame_of(r.id, r.pulse, r.time), 0)
      ELSE Msg("skip", seg, 0)

IsSent(m) == m.k = "sent"

\* C5: the non-empty trimmed segments of a line produce one outcome each, in
\* the order of the line, whatever the segments before them were; the frames
\* written are those of the valid segments in that order.
C5_OneOutcomeEach ==
  InMoveCall =>
    /\ out = [j \in 1..Len(SegmentsDone) |-> C5_Outcome(SegmentsDone[j])]
    /\ wire = [j \in 1..SentCount |-> SelectSeq(out, IsSent)[j].s]
    /\ (pc = "returned" /\ line = <<"0", ",", "b", "a", "d", ";", "1", ",", "2", "0", "0", "0">>)
         => /\ out[1].k = "skip" /\ out[2].k = "sent" /\ Len(out) = 2
            /\ Len(wire) = 1 /\ FieldId(wire[1]).val = 1
    /\ (pc = "returned" /\ line = <<"0", ",", "1", "5", "0", "0", ";", "1", ",", "2", "0", "0", "0">>)
         => /\ out[1].k = "sent" /\ out[2].k = "sent" /\ Len(out) = 2
            /\ Len(wire) = 2
            /\ FieldId(wire[1]).val = 0 /\ FieldPulse(wire[1]).val = 1500
            /\ FieldId(wire[2]).val = 1 /\ FieldPulse(wire[2]).val = 2000

C5_Witness ==
  /\ InMoveCall /\ pc = "returned"
  /\ line = <<"0", ",", "b", "a", "d", ";", "1", ",", "2", "0", "0", "0">>
  /\ out[1].k = "skip" /\ out[2].k = "sent"

----------------------------------------------------------------------------
(* C6 *)

\* The wrapper test as C6 words it.
C6_Wrapped(c) ==
  /\ Len(c) >= 2
  /\ c[1] \in {"C", "c"}
  /\ c[2] = "#"
  /\ c[Len(c)] = "!"

\* C6 (as claimed): a direct call send_passthrough(command) on a working
\* transport succeeds exactly when command starts with C# in either case
\* and ends with !, and then has written command without its first
\* character; otherwise it returns the invalid-passthrough error and has
\* neither written nor read.
C6_PassthroughIff ==
  (call = "send_passthrough" /\ pc = "returned" /\ exc # "SerialException")
    => IF C6_Wrapped(command)
       THEN /\ ret.k = "pt_sent"
            /\ wire = <<Tail(command)>>
            /\ Head(wire[1]) = "#" /\ wire[1][Len(wire[1])] = "!"
       ELSE /\ ret.k = "pt_invalid"
            /\ wire = <<>>
            /\ steps = <<>>

----------------------------------------------------------------------------
(* C7 *)

\* C7: a SerialException raised by a write or a read leaves process_command
\* and main (the port is closed, the process ends); the command it
\* interrupted is not reported, no later step of it has run, and
\* default_time_ms is what it was when the line was read.
C7_TransportFailure ==
  exc = "SerialException" =>
    /\ pc = "closed" /\ ~is_open
    /\ raisedAt \in {"move", "pt_enter", "pt_drain"}
    /\ default_time_ms = lineDefault
    /\ raisedAt = "move"
         => /\ segments # <<>>
            /\ Len(out) = Len(SegmentsDone)
            /\ SentCount = Len(wire)
    /\ raisedAt = "pt_enter" => (out = <<>> /\ wire = <<>> /\ steps = <<>>)
    /\ raisedAt = "pt_drain"
         => (out = <<>> /\ steps \in {<<"write", "sleep">>, <<"write", "sleep", "read">>})

C7_Witness ==
  /\ exc = "SerialException" /\ raisedAt = "move" /\ pc = "closed"
  /\ Len(wire) = 1 /\ Len(out) = 1 /\ Len(segments) = 1
  /\ default_time_ms = 500

----------------------------------------------------------------------------
(* C8 *)

\* C8 (as claimed): after a KeyboardInterrupt during the settle delay the
\* thread is back in the input loop with the port usable.
C8_BackToInput ==
  (exc = "KeyboardInterrupt" /\ raisedAt = "pt_sleep")
    => (pc \in {"idle", "returned", "process"} /\ is_open)

\* C8 (amended): a KeyboardInterrupt during the settle delay ends the
\* command without drain-read or report and ends the session: the loop is
\* left and the port closed; the payload had been written whole.
C8_InterruptEndsSession ==
  (exc = "KeyboardInterrupt" /\ raisedAt = "pt_sleep")
    => /\ pc = "closed" /\ ~is_open
       /\ steps = <<"write">>
       /\ wire = <<payload_of(command)>>
       /\ out = <<Msg("interrupt", <<>>, 0)>>

C8_Witness ==
  /\ exc = "KeyboardInterrupt" /\ raisedAt = "pt_sleep"
  /\ pc = "closed"
  /\ wire = <<payload_of(command)>> /\ command # <<>>

----------------------------------------------------------------------------
(* C9 *)

C9_StateOrder ==
  /\ \E n \in 0..3 : steps = SubSeq(<<"write", "sleep", "read">>, 1, n)
  /\ pc \in {"idle", "process", "pt_enter"} => steps = <<>>
  /\ pc = "pt_sleep" => (steps = <<"write">> /\ wire = <<payload_of(command)>>)
  /\ pc = "pt_drain" => (Len(steps) >= 2 /\ wire = <<payload_of(command)>>)
  /\ (call = "process_command" /\ pc = "returned" /\ exc = "none" /\ steps # <<>>)
       => /\ Len(steps) >= 2
          /\ wire = <<payload_of(command)>>
          /\ out = <<Msg("pt_sent", payload_of(command), response)>>

C9_StepOrder ==
  /\ in_waiting' < in_waiting
       => (pc = "pt_drain" /\ Len(steps) >= 2 /\ steps[2] = "sleep")
  /\ wire' # wire /\ wire' # <<>> /\ command # <<>>
       => (wire' = <<payload_of(command)>> /\ steps = <<>>)
  /\ (pc' = "process" /\ pc # "process") => pc = "idle"

\* C9: in a passthrough dispatch the payload is written in one write, then
\* the settle delay elapses, then the drain-read runs; nothing is read from
\* the transport before the delay has ended, and no line is read before the
\* dispatch is over.
C9_WriteSleepDrain == []C9_StateOrder /\ [][C9_StepOrder]_vars

C9_Witness ==
  /\ call = "process_command" /\ pc = "returned" /\ exc = "none"
  /\ steps = <<"write", "sleep", "read">>
  /\ out[1].k = "pt_sent" /\ out[1].n > 0

----------------------------------------------------------------------------
(* C10 *)

\* C10 (as claimed): the drain-read always ends, whatever the device sends.
C10_DrainAlwaysEnds == (pc = "pt_drain") ~> (pc # "pt_drain")

\* C10 (amended): no read of the drain waits for data, each takes what is
\* buffered, and the drain ends when it finds the buffer empty: so it ends
\* whenever the device stops sending.
C10_DrainEndsOnceSilent ==
  /\ [][(pc = "pt_drain" /\ pc' = "pt_drain" /\ response' # response)
          => (in_waiting > 0 /\ in_waiting' = 0)]_vars
  /\ (pc = "pt_drain" /\ devLeft # Unbounded) ~> (pc # "pt_drain")

C10_Witness ==
  /\ call = "process_command" /\ pc = "returned" /\ exc = "none"
  /\ steps = <<"write", "sleep", "read">>
  /\ devLeft = 0 /\ in_waiting = 0 /\ response > 0

====
